---- MODULE Spec2Model ----
(***************************************************************************)
(* Response / confirmation workflow of the LifelinkGh API.                 *)
(*                                                                         *)
(* The only shared mutable state is the document store (src/db.py): the    *)
(* hospital_requests, donation_responses and donation_records collections. *)
(* Every pymongo call (find_one, insert_one, update_one, delete_one) is    *)
(* one atomic step on the store; a handler is a sequence of such calls.    *)
(*                                                                         *)
(*   SeqSpec  handlers run one after the other, each handler one action.   *)
(*   Spec     handlers run concurrently on the tasks of Tasks, one store   *)
(*            call per action.                                             *)
(***************************************************************************)
EXTENDS Integers, Sequences, FiniteSets, TLC

\* ---------------------------------------------------------------- bounds
MaxRequests  == 1       \* requests ever created
MaxResponses == 2       \* documents in donation_responses
MaxRecords   == 2       \* documents in donation_records
MaxTypeLen   == 4       \* characters of a requested blood type

Tasks     == {"t1", "t2"}           \* concurrent service tasks / instances
Donors    == {"d1", "d2"}           \* current_user["id"] of donor principals
Hospitals == {"h1", "h2"}           \* current_user["id"] of hospital principals

\* Python None
NULL == "<None>"

\* commitment_status is a free Form string supplied by the donor
CommitmentStatuses == {"committed", "declined", "completed"}
\* status_update is a free Form string supplied by the hospital
StatusUpdates == {"active", "fulfilled", "cancelled"}

\* ---------------------------------------------------------- HTTP statuses
HTTP_200_OK                   == 200
HTTP_201_CREATED              == 201
HTTP_400_BAD_REQUEST          == 400
HTTP_401_UNAUTHORIZED         == 401
HTTP_403_FORBIDDEN            == 403
HTTP_404_NOT_FOUND            == 404
HTTP_409_CONFLICT             == 409
HTTP_422_UNPROCESSABLE_ENTITY == 422
HTTP_500_INTERNAL_SERVER_ERROR == 500

\* ----------------------------------------------------------------- tokens
TokenLow  == 1000
TokenHigh == 9999

\* str(random.randint(1000, 9999)): the outcomes drawn are the two ends of
\* the range, rendered as decimal strings.
generate_4_digit_token == {ToString(n) : n \in {TokenLow, TokenHigh}}

\* confirmation_token Form values (min_length = max_length = 4): every token
\* the generator can issue, and one that it never issues.
SubmittedTokens == generate_4_digit_token \cup {"0000"}

\* --------------------------------------------------------------- the state
VARIABLES
    requests,        \* hospital_requests: _id -> [status, hospital_id]
    nextRequestId,   \* the _id the next inserted request gets
    responses,       \* donation_responses: sequence, _id = index
    records,         \* donation_records: sequence, _id = index
    task,            \* per task: position in its handler and its locals
    reply,           \* the HTTP reply returned last: [op, code, message]
    users,           \* users collection: sequence in the order find returns
    matched          \* the donor search made last: [op, result]

store == <<requests, nextRequestId, responses, records>>
vars  == <<requests, nextRequestId, responses, records, task, reply,
          users, matched>>

Idle == [pc |-> "idle", user |-> NULL, request_id |-> 0, response_id |-> 0,
         donor_id |-> NULL, status |-> NULL]

\* no donor search has been made
NoSearch == [op |-> NULL, result |-> NULL]

Init ==
    /\ requests = <<>>
    /\ nextRequestId = 1
    /\ responses = <<>>
    /\ records = <<>>
    /\ task = [t \in Tasks |-> Idle]
    /\ reply = [op |-> NULL, code |-> 0, message |-> NULL]
    /\ users = <<>>
    /\ matched = NoSearch

\* return {"message": ...} with the handler's status_code, or
\* raise HTTPException(code, message)
Reply(op, code, message) ==
    reply' = [op |-> op, code |-> code, message |-> message]

\* ------------------------------------------------------- shared helpers

\* bson ObjectId.is_valid: ids are positive integers, 0 is a malformed id
IsValidObjectId(id) == id \in Nat /\ id >= 1

\* `if x:` on an Optional[str]
Truthy(x) == x # NULL /\ x # ""

\* hospital_requests_collection.find_one({"_id": ...}) found a document
request_found(reqs, request_id) == request_id \in DOMAIN reqs

\* a status check that only turns fulfilled requests away
request_not_active_fulfilled_only(reqs, request_id) ==
    reqs[request_id].status = "fulfilled"

\* request_doc.get("status") != "active"
request_not_active(reqs, request_id) == reqs[request_id].status # "active"

\* an existence check that only counts committed responses
existing_response_committed_only(resps, request_id, donor_id) ==
    \E i \in DOMAIN resps :
        /\ resps[i].request_id = request_id
        /\ resps[i].donor_id = donor_id
        /\ resps[i].status = "committed"

\* an existence check on the donor alone, whatever the request
existing_response_any_request(resps, request_id, donor_id) ==
    \E i \in DOMAIN resps : resps[i].donor_id = donor_id

\* donation_responses_collection.find_one({"request_id", "donor_id"})
existing_response(resps, request_id, donor_id) ==
    \E i \in DOMAIN resps :
        /\ resps[i].request_id = request_id
        /\ resps[i].donor_id = donor_id

\* a token issued whatever the commitment status
confirmation_token_always(commitment_status, generated) == generated

\* a token issued on a status spelled in another letter case
confirmation_token_other_case(commitment_status, generated) ==
    IF commitment_status = "Committed" THEN generated ELSE NULL

\* the token kept with the response: generated only if the donor commits
confirmation_token(commitment_status, generated) ==
    IF commitment_status = "committed" THEN generated ELSE NULL

\* the new response document
response_data(request_id, donor_id, commitment_status, generated) ==
    [request_id         |-> request_id,
     donor_id           |-> donor_id,
     status             |-> commitment_status,
     confirmation_token |-> confirmation_token(commitment_status, generated)]

\* an update filter on the _id alone, whatever the status
matches_any_status(resps, response_id) == response_id \in DOMAIN resps

\* an update filter that matches every status but in progress
matches_not_in_progress(resps, response_id) ==
    /\ response_id \in DOMAIN resps
    /\ resps[response_id].status # "in progress"

\* update_one({"_id", "status": "committed"}, ...) matched a document
matches_committed(resps, response_id) ==
    /\ response_id \in DOMAIN resps
    /\ resps[response_id].status = "committed"

\* an in-progress test against another spelling of the status
already_in_progress_underscore(resps, response_id) ==
    resps[response_id].status = "in_progress"

\* response_doc.get("status") == "in progress"
already_in_progress(resps, response_id) ==
    resps[response_id].status = "in progress"

\* a validation that only asks for a stored token
token_rejected_presence_only(stored_token, submitted) ==
    ~Truthy(stored_token)

\* a validation that lets a Response without a token through
token_rejected_mismatch_only(stored_token, submitted) ==
    /\ Truthy(stored_token)
    /\ stored_token # submitted

\* `not stored_token or stored_token != confirmation_token`
token_rejected(stored_token, submitted) ==
    \/ ~Truthy(stored_token)
    \/ stored_token # submitted

\* a duplicate check that filters on a status no record carries
existing_record_other_case(recs, response_id) ==
    \E k \in DOMAIN recs :
        /\ recs[k].original_response_id = response_id
        /\ recs[k].status = "completed"

\* donations_records_collection.find_one({"original_response_id": ...})
existing_record(recs, response_id) ==
    \E k \in DOMAIN recs : recs[k].original_response_id = response_id

\* the new donation record
donation_record_data(donor_id, hospital_id, response_id) ==
    [donor_id             |-> donor_id,
     hospital_id          |-> hospital_id,
     status               |-> "Completed",
     original_response_id |-> response_id]

\* donation_responses_collection.update_one({"_id"}, {"$set": {"status": s}})
set_response_status(resps, response_id, s) ==
    IF response_id \in DOMAIN resps
    THEN [resps EXCEPT ![response_id].status = s]
    ELSE resps

\* hospital_requests_collection.update_one({"_id"}, {"$set": {"status": s}})
set_request_status(reqs, request_id, s) ==
    IF request_id \in DOMAIN reqs
    THEN [reqs EXCEPT ![request_id].status = s]
    ELSE reqs

\* insert_one on hospital_requests: a new active request owned by h
insert_request(reqs, id, h) ==
    (id :> [status |-> "active", hospital_id |-> h]) @@ reqs

\* update_data of update_request is empty: no field was given
no_update_fields(status_update, other) == ~Truthy(status_update) /\ ~other

\* update_one({"_id"}, {"$set": update_data}) on hospital_requests
apply_update(reqs, request_id, status_update) ==
    IF Truthy(status_update)
    THEN set_request_status(reqs, request_id, status_update)
    ELSE reqs

\* delete_one({"_id"}) on hospital_requests
remove_request(reqs, request_id) ==
    [r \in DOMAIN reqs \ {request_id} |-> reqs[r]]

\* ------------------------------- handlers run one at a time (SeqSpec)
\* A handler is an operator from the collections it reads and its inputs to
\* its outcome: the HTTP reply and the collections it leaves.

\* the outcome of a handler: status code, message, response body and the
\* three collections after the call
Outcome(code, message, body, reqs, resps, recs) ==
    [code      |-> code,
     message   |-> message,
     body      |-> body,
     requests  |-> reqs,
     responses |-> resps,
     records   |-> recs]

\* POST /requests: id is the _id the store gives the new document
create_request(reqs, resps, recs, id, h) ==
    Outcome(HTTP_201_CREATED,
            "Blood request created successfully and immediate notifications were attempted.",
            NULL, insert_request(reqs, id, h), resps, recs)

\* PUT /requests/{id}: status_update is written as given; other says
\* whether any of the blood type, quantity or patient condition is given
update_request(reqs, resps, recs, request_id, status_update, other) ==
    IF no_update_fields(status_update, other)
    THEN Outcome(HTTP_400_BAD_REQUEST, "No update fields provided.",
                 NULL, reqs, resps, recs)
    ELSE IF ~request_found(reqs, request_id)
    THEN Outcome(HTTP_404_NOT_FOUND, "Request not found.",
                 NULL, reqs, resps, recs)
    ELSE Outcome(HTTP_200_OK, "Request updated successfully.", NULL,
                 apply_update(reqs, request_id, status_update), resps, recs)

\* DELETE /requests/{id}: delete_one on hospital_requests only
delete_request(reqs, resps, recs, request_id) ==
    IF request_found(reqs, request_id)
    THEN Outcome(HTTP_200_OK, "Request deleted successfully.", NULL,
                 remove_request(reqs, request_id), resps, recs)
    ELSE Outcome(HTTP_404_NOT_FOUND, "Request not found.",
                 NULL, reqs, resps, recs)

\* POST /donors/requests/{request_id}/respond; generated is the value
\* generate_4_digit_token() returns if it is called
respond_to_request(reqs, resps, recs, d, request_id, commitment_status, generated) ==
    IF ~IsValidObjectId(request_id)
    THEN Outcome(HTTP_422_UNPROCESSABLE_ENTITY, "Invalid request ID.",
                 NULL, reqs, resps, recs)
    ELSE IF ~request_found(reqs, request_id)
    THEN Outcome(HTTP_404_NOT_FOUND,
                 "Blood request not found or is no longer active.",
                 NULL, reqs, resps, recs)
    ELSE IF request_not_active(reqs, request_id)
    THEN Outcome(HTTP_400_BAD_REQUEST,
                 "Cannot respond to request with status: "
                     \o reqs[request_id].status \o ".",
                 NULL, reqs, resps, recs)
    ELSE IF existing_response(resps, request_id, d)
    THEN Outcome(HTTP_409_CONFLICT,
                 "You have already responded to this request.",
                 NULL, reqs, resps, recs)
    ELSE LET data == response_data(request_id, d, commitment_status,
                                   generated)
         IN  Outcome(HTTP_201_CREATED,
                 "Your response has been recorded. The hospital will be notified.",
                 [response_id |-> Len(resps) + 1,
                  confirmation_token_if_committed |->
                      data.confirmation_token],
                 reqs, Append(resps, data), recs)

\* PUT /responses/{response_id}/in-progress; current_user is not consulted
set_response_in_progress(reqs, resps, recs, response_id) ==
    IF ~IsValidObjectId(response_id)
    THEN Outcome(HTTP_422_UNPROCESSABLE_ENTITY, "Invalid response ID.",
                 NULL, reqs, resps, recs)
    ELSE IF matches_committed(resps, response_id)
    THEN Outcome(HTTP_200_OK,
                 "Donation status successfully updated to 'in progress'.",
                 NULL, reqs,
                 set_response_status(resps, response_id, "in progress"),
                 recs)
    ELSE IF response_id \notin DOMAIN resps
    THEN Outcome(HTTP_404_NOT_FOUND, "Donation response not found.",
                 NULL, reqs, resps, recs)
    ELSE IF already_in_progress(resps, response_id)
    THEN Outcome(HTTP_200_OK, "Donation status is already 'in progress'.",
                 NULL, reqs, resps, recs)
    ELSE Outcome(HTTP_400_BAD_REQUEST,
                 "Cannot move from status '" \o resps[response_id].status
                     \o "' to 'in progress'.",
                 NULL, reqs, resps, recs)

\* POST /responses/{response_id}/confirm-donation; h is current_user["id"]
confirm_donation(reqs, resps, recs, h, response_id, submitted) ==
    IF ~IsValidObjectId(response_id)
    THEN Outcome(HTTP_422_UNPROCESSABLE_ENTITY, "Invalid response ID.",
                 NULL, reqs, resps, recs)
    ELSE IF response_id \notin DOMAIN resps
    THEN Outcome(HTTP_404_NOT_FOUND, "Donation response not found.",
                 NULL, reqs, resps, recs)
    ELSE IF token_rejected(resps[response_id].confirmation_token,
                           submitted)
    THEN Outcome(HTTP_401_UNAUTHORIZED,
                 "Invalid or missing confirmation token.",
                 NULL, reqs, resps, recs)
    ELSE IF existing_record(recs, response_id)
    THEN Outcome(HTTP_409_CONFLICT,
                 "A donation record for this response already exists.",
                 NULL, reqs, resps, recs)
    ELSE Outcome(HTTP_201_CREATED,
                 "Donation successfully recorded and added to donor's history.",
                 NULL,
                 set_request_status(reqs, resps[response_id].request_id,
                                    "fulfilled"),
                 set_response_status(resps, response_id, "completed"),
                 Append(recs,
                     donation_record_data(resps[response_id].donor_id,
                                          h, response_id)))

\* the handler op ends with outcome out: the store takes the collections
\* the handler leaves and the caller gets the reply
Commit(op, out) ==
    /\ Len(out.responses) <= MaxResponses
    /\ Len(out.records) <= MaxRecords
    /\ requests' = out.requests
    /\ responses' = out.responses
    /\ records' = out.records
    /\ Reply(op, out.code, out.message)
    /\ UNCHANGED <<task, users, matched>>

CreateRequest ==
    /\ nextRequestId <= MaxRequests
    /\ \E h \in Hospitals :
          Commit("create_request",
                 create_request(requests, responses, records,
                                nextRequestId, h))
    /\ nextRequestId' = nextRequestId + 1

UpdateRequest ==
    /\ \E r \in 1..MaxRequests, s \in StatusUpdates \cup {NULL},
          other \in BOOLEAN :
          Commit("update_request",
                 update_request(requests, responses, records, r, s, other))
    /\ UNCHANGED nextRequestId

DeleteRequest ==
    /\ \E r \in 1..MaxRequests :
          Commit("delete_request",
                 delete_request(requests, responses, records, r))
    /\ UNCHANGED nextRequestId

RespondToRequest ==
    /\ \E d \in Donors, r \in 0..MaxRequests, cs \in CommitmentStatuses,
          generated \in generate_4_digit_token :
          Commit("respond_to_request",
                 respond_to_request(requests, responses, records,
                                    d, r, cs, generated))
    /\ UNCHANGED nextRequestId

SetResponseInProgress ==
    /\ \E i \in 0..MaxResponses :
          Commit("set_response_in_progress",
                 set_response_in_progress(requests, responses, records, i))
    /\ UNCHANGED nextRequestId

ConfirmDonation ==
    /\ \E h \in Hospitals, i \in 0..MaxResponses, tok \in SubmittedTokens :
          Commit("confirm_donation",
                 confirm_donation(requests, responses, records, h, i, tok))
    /\ UNCHANGED nextRequestId

SeqNext ==
    \/ CreateRequest
    \/ UpdateRequest
    \/ DeleteRequest
    \/ RespondToRequest
    \/ SetResponseInProgress
    \/ ConfirmDonation

SeqSpec == Init /\ [][SeqNext]_vars

\* --------------------- handlers run concurrently, one store call per step
\* The reply of a handler is left out of the concurrent specification: the
\* task returns to idle and only the store keeps what the handler did.

\* tasks that are past respond_to_request's request lookup
Responding ==
    {t \in Tasks : task[t].pc \in {"respond_find_existing", "respond_insert"}}

\* tasks that are past confirm_donation's token validation and have not yet
\* inserted their record
Confirming ==
    {t \in Tasks : task[t].pc \in {"confirm_find_record", "confirm_insert_record"}}

\* respond_to_request, to the find_one on hospital_requests and the checks
\* of its result
respond_find_request(t, d, request_id, commitment_status) ==
    /\ task[t].pc = "idle"
    /\ Len(responses) + Cardinality(Responding) < MaxResponses
    /\ IF /\ IsValidObjectId(request_id)
          /\ request_found(requests, request_id)
          /\ ~request_not_active(requests, request_id)
       THEN task' = [task EXCEPT ![t] =
                [Idle EXCEPT !.pc = "respond_find_existing", !.user = d,
                             !.request_id = request_id,
                             !.status = commitment_status]]
       ELSE UNCHANGED task
    /\ UNCHANGED <<store, reply, users, matched>>

\* respond_to_request: the find_one on donation_responses
respond_find_existing(t) ==
    /\ task[t].pc = "respond_find_existing"
    /\ task' = [task EXCEPT ![t] =
            IF existing_response(responses, task[t].request_id, task[t].user)
            THEN Idle
            ELSE [task[t] EXCEPT !.pc = "respond_insert"]]
    /\ UNCHANGED <<store, reply, users, matched>>

\* respond_to_request: token generation and the insert_one
respond_insert(t) ==
    /\ task[t].pc = "respond_insert"
    /\ \E generated \in generate_4_digit_token :
          responses' = Append(responses,
              response_data(task[t].request_id, task[t].user,
                            task[t].status, generated))
    /\ task' = [task EXCEPT ![t] = Idle]
    /\ UNCHANGED <<requests, nextRequestId, records, reply, users, matched>>

\* set_response_in_progress: the conditional update_one
set_in_progress_update(t, response_id) ==
    /\ task[t].pc = "idle"
    /\ IF ~IsValidObjectId(response_id)
       THEN UNCHANGED <<responses, task>>
       ELSE IF matches_committed(responses, response_id)
       THEN /\ responses' = set_response_status(responses, response_id,
                                                "in progress")
            /\ UNCHANGED task
       ELSE /\ task' = [task EXCEPT ![t] =
                    [Idle EXCEPT !.pc = "set_in_progress_find",
                                 !.response_id = response_id]]
            /\ UNCHANGED responses
    /\ UNCHANGED <<requests, nextRequestId, records, reply, users, matched>>

\* set_response_in_progress: matched_count == 0, the find_one that tells
\* a missing response from one in another status; no write either way
set_in_progress_find(t) ==
    /\ task[t].pc = "set_in_progress_find"
    /\ task' = [task EXCEPT ![t] = Idle]
    /\ UNCHANGED <<store, reply, users, matched>>

\* confirm_donation, to the find_one on donation_responses and the token
\* validation
confirm_find_response(t, h, response_id, submitted) ==
    /\ task[t].pc = "idle"
    /\ Len(records) + Cardinality(Confirming) < MaxRecords
    /\ IF /\ IsValidObjectId(response_id)
          /\ response_id \in DOMAIN responses
          /\ ~token_rejected(responses[response_id].confirmation_token,
                             submitted)
       THEN task' = [task EXCEPT ![t] =
                [Idle EXCEPT !.pc = "confirm_find_record", !.user = h,
                             !.response_id = response_id,
                             !.request_id = responses[response_id].request_id,
                             !.donor_id = responses[response_id].donor_id]]
       ELSE UNCHANGED task
    /\ UNCHANGED <<store, reply, users, matched>>

\* confirm_donation: the find_one on donation_records
confirm_find_record(t) ==
    /\ task[t].pc = "confirm_find_record"
    /\ task' = [task EXCEPT ![t] =
            IF existing_record(records, task[t].response_id)
            THEN Idle
            ELSE [task[t] EXCEPT !.pc = "confirm_insert_record"]]
    /\ UNCHANGED <<store, reply, users, matched>>

\* confirm_donation: the insert_one on donation_records
confirm_insert_record(t) ==
    /\ task[t].pc = "confirm_insert_record"
    /\ records' = Append(records,
           donation_record_data(task[t].donor_id, task[t].user,
                                task[t].response_id))
    /\ task' = [task EXCEPT ![t].pc = "confirm_update_response"]
    /\ UNCHANGED <<requests, nextRequestId, responses, reply, users, matched>>

\* confirm_donation: the update_one on donation_responses
confirm_update_response(t) ==
    /\ task[t].pc = "confirm_update_response"
    /\ responses' = set_response_status(responses, task[t].response_id,
                                        "completed")
    /\ task' = [task EXCEPT ![t].pc = "confirm_update_request"]
    /\ UNCHANGED <<requests, nextRequestId, records, reply, users, matched>>

\* confirm_donation: the update_one on hospital_requests, and the return
confirm_update_request(t) ==
    /\ task[t].pc = "confirm_update_request"
    /\ requests' = set_request_status(requests, task[t].request_id,
                                      "fulfilled")
    /\ task' = [task EXCEPT ![t] = Idle]
    /\ UNCHANGED <<nextRequestId, responses, records, reply, users, matched>>

RespondFindRequest ==
    \E t \in Tasks, d \in Donors, r \in 0..MaxRequests,
       cs \in CommitmentStatuses : respond_find_request(t, d, r, cs)

RespondFindExisting == \E t \in Tasks : respond_find_existing(t)

RespondInsert == \E t \in Tasks : respond_insert(t)

SetInProgressUpdate ==
    \E t \in Tasks, i \in 0..MaxResponses : set_in_progress_update(t, i)

SetInProgressFind == \E t \in Tasks : set_in_progress_find(t)

ConfirmFindResponse ==
    \E t \in Tasks, h \in Hospitals, i \in 0..MaxResponses,
       tok \in SubmittedTokens : confirm_find_response(t, h, i, tok)

ConfirmFindRecord == \E t \in Tasks : confirm_find_record(t)

ConfirmInsertRecord == \E t \in Tasks : confirm_insert_record(t)

ConfirmUpdateResponse == \E t \in Tasks : confirm_update_response(t)

ConfirmUpdateRequest == \E t \in Tasks : confirm_update_request(t)

\* create_request: its insert_one
create_request_insert(h) ==
    /\ nextRequestId <= MaxRequests
    /\ requests' = insert_request(requests, nextRequestId, h)
    /\ nextRequestId' = nextRequestId + 1
    /\ UNCHANGED <<responses, records, task, reply, users, matched>>

\* update_request: its update_one, reached when a field is given
update_request_update(request_id, status_update, other) ==
    /\ ~no_update_fields(status_update, other)
    /\ requests' = IF request_found(requests, request_id)
                   THEN apply_update(requests, request_id, status_update)
                   ELSE requests
    /\ UNCHANGED <<nextRequestId, responses, records, task, reply, users, matched>>

\* delete_request: its delete_one
delete_request_delete(request_id) ==
    /\ requests' = remove_request(requests, request_id)
    /\ UNCHANGED <<nextRequestId, responses, records, task, reply, users, matched>>

\* the pymongo call a task is about to make raises (the store is
\* unreachable or fails): no handler catches it, so the handler ends there
\* with a server error, having made the calls before it and none after
store_failure(t) ==
    /\ task[t].pc # "idle"
    /\ task' = [task EXCEPT ![t] = Idle]
    /\ UNCHANGED <<store, reply, users, matched>>

StoreFailure == \E t \in Tasks : store_failure(t)

CreateRequestInsert == \E h \in Hospitals : create_request_insert(h)

UpdateRequestUpdate ==
    \E r \in 1..MaxRequests, s \in StatusUpdates \cup {NULL},
       other \in BOOLEAN : update_request_update(r, s, other)

DeleteRequestDelete == \E r \in 1..MaxRequests : delete_request_delete(r)

Next ==
    \/ CreateRequestInsert
    \/ UpdateRequestUpdate
    \/ DeleteRequestDelete
    \/ RespondFindRequest
    \/ RespondFindExisting
    \/ RespondInsert
    \/ SetInProgressUpdate
    \/ SetInProgressFind
    \/ ConfirmFindResponse
    \/ ConfirmFindRecord
    \/ ConfirmInsertRecord
    \/ ConfirmUpdateResponse
    \/ ConfirmUpdateRequest
    \/ StoreFailure

Spec == Init /\ [][Next]_vars

\* ------------------------------------------------- donor matching (MatchSpec)
\* Blood types are Python strings, kept as sequences of characters.
\* Coordinates are in tenths of a degree and distances in metres; all the
\* places lie on one meridian.

O_NEG  == <<"O", "-">>
O_POS  == <<"O", "+">>
A_NEG  == <<"A", "-">>
A_POS  == <<"A", "+">>
B_NEG  == <<"B", "-">>
B_POS  == <<"B", "+">>
AB_NEG == <<"A", "B", "-">>
AB_POS == <<"A", "B", "+">>

\* the elements of a Python list
Elements(list) == {list[k] : k \in DOMAIN list}

\* str.upper() on one character
UpperChar(c) ==
    CASE c = "a" -> "A"
      [] c = "b" -> "B"
      [] c = "o" -> "O"
      [] OTHER   -> c

\* str.upper()
upper(s) == [k \in DOMAIN s |-> UpperChar(s[k])]

\* the characters str.strip() removes
IsWhitespace(c) == c \in {" ", "\t", "\n"}

RECURSIVE lstrip(_)
\* leading whitespace removed
lstrip(s) ==
    IF s # <<>> /\ IsWhitespace(Head(s)) THEN lstrip(Tail(s)) ELSE s

RECURSIVE rstrip(_)
\* trailing whitespace removed
rstrip(s) ==
    IF s # <<>> /\ IsWhitespace(s[Len(s)])
    THEN rstrip(SubSeq(s, 1, Len(s) - 1))
    ELSE s

\* str.strip()
strip(s) == rstrip(lstrip(s))

\* a string left with its inner spaces
keep_spaces(s) == s

\* str.replace(" ", "")
remove_spaces(s) == SelectSeq(s, LAMBDA c : c # " ")

\* a table whose A- row accepts O+ donors
compatibility_map_rh_blind ==
    (O_NEG  :> <<O_NEG>>) @@
    (O_POS  :> <<O_NEG, O_POS>>) @@
    (A_NEG  :> <<O_NEG, O_POS, A_NEG>>) @@
    (A_POS  :> <<O_NEG, O_POS, A_NEG, A_POS>>) @@
    (B_NEG  :> <<O_NEG, B_NEG>>) @@
    (B_POS  :> <<O_NEG, O_POS, B_NEG, B_POS>>) @@
    (AB_NEG :> <<O_NEG, A_NEG, B_NEG, AB_NEG>>) @@
    (AB_POS :> <<O_NEG, O_POS, A_NEG, A_POS, B_NEG, B_POS, AB_NEG, AB_POS>>)

\* Recipient type -> list of acceptable donor types
compatibility_map ==
    (O_NEG  :> <<O_NEG>>) @@
    (O_POS  :> <<O_NEG, O_POS>>) @@
    (A_NEG  :> <<O_NEG, A_NEG>>) @@
    (A_POS  :> <<O_NEG, O_POS, A_NEG, A_POS>>) @@
    (B_NEG  :> <<O_NEG, B_NEG>>) @@
    (B_POS  :> <<O_NEG, O_POS, B_NEG, B_POS>>) @@
    (AB_NEG :> <<O_NEG, A_NEG, B_NEG, AB_NEG>>) @@
    (AB_POS :> <<O_NEG, O_POS, A_NEG, A_POS, B_NEG, B_POS, AB_NEG, AB_POS>>)

\* the donor types acceptable for a requested type, the type itself when
\* it is not a key of the map
get_compatible_donor_types(requested_type) ==
    LET normalized == remove_spaces(strip(upper(requested_type)))
    IN  IF normalized \in DOMAIN compatibility_map
        THEN compatibility_map[normalized]
        ELSE <<normalized>>

\* bson ObjectId built from its hex string, and a BSON string: values of
\* the two types are never equal
ObjectId(hex) == [oid |-> hex]
BsonString(s) == [str |-> s]

\* str(ObjectId): the id a principal carries as current_user["id"]
str(oid) == oid.oid

\* the numbers, in tenths of a degree, whose decimal strings occur
Tenths == {0} \cup (56..61)

\* str(geo_location.latitude) for a whole number of tenths
DecimalString(k) == ToString(k \div 10) \o "." \o ToString(k % 10)

\* the exception float(value) raises, NULL if it raises none
float_raises(value) ==
    IF value = NULL THEN "TypeError"
    ELSE IF \E k \in Tenths : DecimalString(k) = value THEN NULL
    ELSE "ValueError"

\* float(value) for a value float accepts
float(value) == CHOOSE k \in Tenths : DecimalString(k) = value

\* Radius of Earth in kilometers
R == 6371

\* pi, times ten thousand
PiE4 == 31416

\* |x|
Abs(x) == IF x < 0 THEN -x ELSE x

\* the haversine distance, in metres, of two points of one meridian:
\* delta_lambda = 0, so a = sin(delta_phi / 2) ** 2, c = |delta_phi| in
\* radians and the distance is R * c
haversine_distance(lat1, lon1, lat2, lon2) ==
    (R * PiE4 * Abs(lat2 - lat1)) \div 18000

\* round(distance_km, 2): hundredths of a kilometre
round2(distance) == (distance + 5) \div 10

\* distance_km <= radius_km, the distance in metres
within_radius(distance, radius_km) == distance <= radius_km * 1000

\* a search filter that leaves the availability status out
nearby_query_any_availability(donor, compatible_donor_types) ==
    /\ donor.role = "donor"
    /\ donor.blood_type \in Elements(compatible_donor_types)

\* the filter of find_nearby_donors and search_available_donors on users
nearby_query(donor, compatible_donor_types) ==
    /\ donor.role = "donor"
    /\ donor.blood_type \in Elements(compatible_donor_types)
    /\ donor.availability_status = "available"

\* a loop body without the test for missing coordinates
missing_coordinates_unchecked(donor) == FALSE

\* if lat_value is None or lon_value is None
missing_coordinates(donor) == donor.lat = NULL \/ donor.lon = NULL

\* the exception float raises on the donor's coordinates, lat first, NULL
\* if it raises none
coordinate_error(donor) ==
    IF float_raises(donor.lat) # NULL THEN float_raises(donor.lat)
    ELSE float_raises(donor.lon)

\* the exception that ends a loop over potential_donors: the error of the
\* first donor whose coordinates are read (guarded: after the test for
\* missing ones) and raise an exception the except clauses do not catch
loop_raises(potential_donors, guarded, caught) ==
    LET escaping ==
            {k \in DOMAIN potential_donors :
                /\ ~(guarded /\ missing_coordinates(potential_donors[k]))
                /\ coordinate_error(potential_donors[k]) # NULL
                /\ coordinate_error(potential_donors[k]) \notin caught}
    IN  IF escaping = {} THEN NULL
        ELSE coordinate_error(potential_donors[
                 CHOOSE k \in escaping : \A j \in escaping : k <= j])

RECURSIVE nearby_loop(_, _, _, _)
\* the loop over potential_donors: donors without coordinates or with
\* coordinates float rejects are skipped, the others are kept, in the
\* order of the cursor, when they lie within the radius
nearby_loop(potential_donors, hospital_lat, hospital_lon, radius_km) ==
    IF potential_donors = <<>> THEN <<>>
    ELSE LET donor == Head(potential_donors)
             rest  == nearby_loop(Tail(potential_donors), hospital_lat,
                                  hospital_lon, radius_km)
         IN  IF missing_coordinates(donor) THEN rest
             ELSE IF float_raises(donor.lat) = "ValueError" THEN rest
             ELSE IF float_raises(donor.lon) = "ValueError" THEN rest
             ELSE LET distance_km ==
                          haversine_distance(hospital_lat, hospital_lon,
                              float(donor.lat), float(donor.lon))
                  IN  IF within_radius(distance_km, radius_km)
                      THEN <<[id          |-> str(donor._id),
                              blood_type  |-> donor.blood_type,
                              distance_km |-> round2(distance_km)]>>
                           \o rest
                      ELSE rest

\* find_nearby_donors: the matched donors, as the loop collected them
find_nearby_donors(usrs, hospital_lat, hospital_lon, requested_blood_type, radius_km) ==
    LET compatible_donor_types ==
            get_compatible_donor_types(requested_blood_type)
        potential_donors ==
            SelectSeq(usrs,
                LAMBDA donor : nearby_query(donor, compatible_donor_types))
    IN  nearby_loop(potential_donors, hospital_lat, hospital_lon,
                    radius_km)

\* the exception find_nearby_donors raises, NULL if it returns: its loop
\* catches ValueError alone
find_nearby_donors_raises(usrs, requested_blood_type) ==
    LET compatible_donor_types ==
            get_compatible_donor_types(requested_blood_type)
        potential_donors ==
            SelectSeq(usrs,
                LAMBDA donor : nearby_query(donor, compatible_donor_types))
    IN  loop_raises(potential_donors, TRUE, {"ValueError"})

\* geolocator.geocode(location_name) found no place (None)
NoLocation == [found |-> FALSE, latitude |-> 0, longitude |-> 0]

\* geolocator.geocode(location_name) found the place at these coordinates
Location(latitude, longitude) ==
    [found |-> TRUE, latitude |-> latitude, longitude |-> longitude]

\* GET /donors/search.  role is current_user["role"], geo_location the
\* geocoder's answer for location_name
search_available_donors(usrs, role, geo_location, blood_type, radius) ==
    IF role # "hospital"
    THEN [code |-> HTTP_403_FORBIDDEN, donors |-> <<>>]
    ELSE IF ~geo_location.found
    THEN [code |-> HTTP_500_INTERNAL_SERVER_ERROR, donors |-> <<>>]
    ELSE LET compatible_donor_types ==
                 get_compatible_donor_types(blood_type)
             potential_donors ==
                 SelectSeq(usrs,
                     LAMBDA donor :
                         nearby_query(donor, compatible_donor_types))
         IN  [code   |-> HTTP_200_OK,
              donors |-> nearby_loop(potential_donors,
                             geo_location.latitude,
                             geo_location.longitude, radius)]

\* the exception the loop of search_available_donors raises, NULL if it
\* ends: it catches ValueError and, after it, Exception
search_available_donors_raises(usrs, blood_type) ==
    LET compatible_donor_types ==
            get_compatible_donor_types(blood_type)
        potential_donors ==
            SelectSeq(usrs,
                LAMBDA donor :
                    nearby_query(donor, compatible_donor_types))
    IN  loop_raises(potential_donors, TRUE, {"ValueError", "TypeError"})

\* the donor ids of the responses to a request, as they are stored
excluded_donor_ids(resps, request_id) ==
    LET existing_responses ==
            SelectSeq(resps, LAMBDA response :
                                 response.request_id = request_id)
    IN  [k \in DOMAIN existing_responses |->
             BsonString(existing_responses[k].donor_id)]

\* {"$nin": list}
nin(value, list) == \A k \in DOMAIN list : list[k] # value

\* the filter of find_next_suitable_donor on users
suitable_query(donor, blood_type, excluded) ==
    /\ donor.role = "donor"
    /\ donor.blood_type = blood_type
    /\ donor.availability_status = "available"
    /\ nin(donor._id, excluded)

RECURSIVE suitable_loop(_, _, _, _)
\* the loop of find_next_suitable_donor: a donor whose coordinates float
\* rejects (ValueError, or TypeError for None) is skipped
suitable_loop(potential_donors, hospital_lat, hospital_lon, search_radius_km) ==
    IF potential_donors = <<>> THEN <<>>
    ELSE LET donor == Head(potential_donors)
             rest  == suitable_loop(Tail(potential_donors), hospital_lat,
                                    hospital_lon, search_radius_km)
         IN  IF float_raises(donor.lat) # NULL THEN rest
             ELSE IF float_raises(donor.lon) # NULL THEN rest
             ELSE LET distance_km ==
                          haversine_distance(hospital_lat, hospital_lon,
                              float(donor.lat), float(donor.lon))
                  IN  IF within_radius(distance_km, search_radius_km)
                      THEN <<[id          |-> str(donor._id),
                              distance_km |-> round2(distance_km)]>>
                           \o rest
                      ELSE rest

\* min(found_donors, key=lambda d: d["distance_km"]): the first of the
\* donors with the least distance
closest(found_donors) ==
    LET k == CHOOSE i \in DOMAIN found_donors :
                 /\ \A j \in DOMAIN found_donors :
                       found_donors[i].distance_km
                           <= found_donors[j].distance_km
                 /\ \A j \in 1..(i - 1) :
                       found_donors[j].distance_km
                           > found_donors[i].distance_km
    IN  found_donors[k]

\* find_next_suitable_donor: the best match as a one-element list, the
\* empty list for None
find_next_suitable_donor(usrs, resps, request_id, blood_type, hospital_lat, hospital_lon, search_radius_km) ==
    LET excluded == excluded_donor_ids(resps, request_id)
        potential_donors ==
            SelectSeq(usrs, LAMBDA donor :
                                suitable_query(donor, blood_type, excluded))
        found_donors ==
            suitable_loop(potential_donors, hospital_lat, hospital_lon,
                          search_radius_km)
    IN  IF found_donors = <<>> THEN <<>> ELSE <<closest(found_donors)>>

\* the exception find_next_suitable_donor raises, NULL if it returns: its
\* loop reads the coordinates unguarded and catches ValueError, TypeError
find_next_suitable_donor_raises(usrs, resps, request_id, blood_type) ==
    LET excluded == excluded_donor_ids(resps, request_id)
        potential_donors ==
            SelectSeq(usrs, LAMBDA donor :
                                suitable_query(donor, blood_type, excluded))
    IN  loop_raises(potential_donors, FALSE, {"ValueError", "TypeError"})

\* the user documents the searches read: role, blood type, availability
\* and the coordinates as stored (strings, or None)
Roles == {"donor", "volunteer"}
Availabilities == {"available", "unavailable"}
DonorBloodTypes == {O_NEG, B_POS}

\* stored (lat, lon) pairs: three places 0, 11 and 56 km north of the
\* first, no coordinates, a latitude that is not a number, no longitude
StoredCoordinates ==
    {<<DecimalString(56), DecimalString(0)>>,
     <<DecimalString(57), DecimalString(0)>>,
     <<DecimalString(61), DecimalString(0)>>,
     <<NULL, NULL>>,
     <<"abc", DecimalString(0)>>,
     <<DecimalString(56), NULL>>}

\* the documents a principal of Donors can have in users
UserDocs ==
    {[_id                 |-> ObjectId(d),
      role                |-> r,
      blood_type          |-> b,
      availability_status |-> a,
      lat                 |-> c[1],
      lon                 |-> c[2]] :
        d \in Donors, r \in Roles, b \in DonorBloodTypes,
        a \in Availabilities, c \in StoredCoordinates}

\* the users collection: one document per principal, in either order
UserRepositories ==
    {repository \in UserDocs \X UserDocs :
        repository[1]._id # repository[2]._id}

\* requested blood types: recognised ones, one in lower case with spaces,
\* one that the map does not know
RequestedTypes == {A_POS, B_POS, O_NEG, <<" ", "a", " ", "+">>, <<"X">>}

\* hospital or search coordinates, in tenths of a degree
HospitalLatitudes == {56, 57}

\* search radii in km
Radii == {20, 50, 100}

\* one active request, no responses, and users registered
MatchInit ==
    /\ requests = (1 :> [status |-> "active", hospital_id |-> "h1"])
    /\ nextRequestId = 2
    /\ responses = <<>>
    /\ records = <<>>
    /\ task = [t \in Tasks |-> Idle]
    /\ reply = [op |-> NULL, code |-> 0, message |-> NULL]
    /\ users \in UserRepositories
    /\ matched = NoSearch

\* the search op has returned result
Matched(op, result) ==
    /\ matched' = [op |-> op, result |-> result]
    /\ UNCHANGED <<store, task, reply, users>>

\* create_request's matching of a new A+ or B+ request at the first place
FindNearbyDonors ==
    \E requested \in {A_POS, B_POS} :
        Matched("find_nearby_donors",
                find_nearby_donors(users, 56, 0, requested, 50))

\* a hospital searches for B+ donors around the second place
SearchAvailableDonors ==
    \E geo_location \in {Location(57, 0)} :
        Matched("search_available_donors",
                search_available_donors(users, "hospital", geo_location,
                                        B_POS, 50))

\* the next suitable donor for request 1
FindNextSuitableDonor ==
    \E blood_type \in {O_NEG} :
        Matched("find_next_suitable_donor",
                find_next_suitable_donor(users, responses, 1, blood_type,
                                         56, 0, 50))

\* a donor commits to request 1
MatchRespond ==
    /\ \E d \in Donors :
          Commit("respond_to_request",
                 respond_to_request(requests, responses, records, d, 1,
                                    "committed", ToString(TokenLow)))
    /\ UNCHANGED nextRequestId

MatchNext ==
    \/ FindNearbyDonors
    \/ SearchAvailableDonors
    \/ FindNextSuitableDonor
    \/ MatchRespond

MatchSpec == MatchInit /\ [][MatchNext]_vars

\* ------------------------------ two requests at a time (TwoRequestSpec)
\* Two hospitals each have an active request and two registered donors
\* respond to them; find_nearby_donors runs for the requests in between.

\* the active requests: requests 1 and 2, of the two hospitals
ActiveRequests == 1..2

\* the donors as register_donor stores them, at one of the two nearest
\* places
RegisteredDonors ==
    {repository \in UserRepositories :
        \A k \in DOMAIN repository :
            /\ repository[k].role = "donor"
            /\ repository[k].lat \in {DecimalString(56), DecimalString(57)}
            /\ repository[k].lon = DecimalString(0)}

TwoRequestInit ==
    /\ requests = [r \in ActiveRequests |->
                       [status |-> "active",
                        hospital_id |-> IF r = 1 THEN "h1" ELSE "h2"]]
    /\ nextRequestId = 3
    /\ responses = <<>>
    /\ records = <<>>
    /\ task = [t \in Tasks |-> Idle]
    /\ reply = [op |-> NULL, code |-> 0, message |-> NULL]
    /\ users \in RegisteredDonors
    /\ matched = NoSearch

\* a donor responds to one of the requests
RespondToEither ==
    /\ \E d \in Donors, r \in ActiveRequests,
          cs \in {"committed", "declined"} :
          Commit("respond_to_request",
                 respond_to_request(requests, responses, records, d, r,
                                    cs, ToString(TokenLow)))
    /\ UNCHANGED nextRequestId

TwoRequestNext ==
    \/ RespondToEither
    \/ FindNearbyDonors

TwoRequestSpec == TwoRequestInit /\ [][TwoRequestNext]_vars

\* --------------------------------------- the helpers of donor.py (UtilSpec)
\* The pure helpers, each applied to one input per step; the call and what
\* it returned are kept in matched.

\* Floats are fixed-point numbers, ten thousand to the unit; like the
\* IEEE operations, every operation rounds its exact result and rounds -x
\* to minus what it rounds x to.
Unit == 10000

\* n / d rounded down, which does not treat x and -x alike
RoundDown(n, d) == n \div d

\* n / d rounded to the nearest integer, halves away from zero
Round(n, d) ==
    IF n >= 0 THEN (2 * n + d) \div (2 * d)
    ELSE -((2 * (-n) + d) \div (2 * d))

\* x * y
Mul(x, y) == Round(x * y, Unit)

\* math.radians(degrees): degrees * pi / 180
radians(degrees) == Round(degrees * PiE4, 180)

\* math.sin(x) for |x| <= 1, by its series up to x ** 7
sin(x) ==
    LET x2 == Mul(x, x)
        x3 == Mul(x2, x)
        x5 == Mul(x3, x2)
        x7 == Mul(x5, x2)
    IN  x - Round(x3, 6) + Round(x5, 120) - Round(x7, 5040)

\* math.cos(x) for |x| <= 1, by its series up to x ** 6
cos(x) ==
    LET x2 == Mul(x, x)
        x4 == Mul(x2, x2)
        x6 == Mul(x4, x2)
    IN  Unit - Round(x2, 2) + Round(x4, 24) - Round(x6, 720)

RECURSIVE sqrt_between(_, _, _)
\* the greatest r in lo..hi with r * r <= n
sqrt_between(n, lo, hi) ==
    IF lo = hi THEN lo
    ELSE LET mid == (lo + hi + 1) \div 2
         IN  IF mid * mid <= n THEN sqrt_between(n, mid, hi)
             ELSE sqrt_between(n, lo, mid - 1)

\* math.sqrt(x) for 0 <= x <= 1
sqrt(x) == sqrt_between(x * Unit, 0, Unit)

\* math.atan(t) for 0 <= t <= 1: pi/4 * t + 0.273 * t * (1 - t)
atan(t) == Mul(Round(PiE4, 4), t) + Mul(2730, Mul(t, Unit - t))

\* math.atan2(y, x) for y >= 0 and x >= 0
atan2(y, x) ==
    IF y = 0 THEN 0
    ELSE IF y <= x THEN atan(Round(y * Unit, x))
    ELSE Round(PiE4, 2) - atan(Round(x * Unit, y))

\* haversine_distance of donor.py, degrees in and kilometres out
donor_haversine_distance(lat1, lon1, lat2, lon2) ==
    LET phi1 == radians(lat1)
        phi2 == radians(lat2)
        delta_phi == radians(lat2 - lat1)
        delta_lambda == radians(lon2 - lon1)
        a == Mul(sin(Round(delta_phi, 2)), sin(Round(delta_phi, 2)))
             + Mul(Mul(cos(phi1), cos(phi2)),
                   Mul(sin(Round(delta_lambda, 2)),
                       sin(Round(delta_lambda, 2))))
        c == 2 * atan2(sqrt(a), sqrt(Unit - a))
        distance == R * c
    IN  distance

\* haversine_distance of hospital.py, degrees in and kilometres out
hospital_haversine_distance(lat1, lon1, lat2, lon2) ==
    LET phi1 == radians(lat1)
        phi2 == radians(lat2)
        delta_phi == radians(lat2 - lat1)
        delta_lambda == radians(lon2 - lon1)
        a == Mul(sin(Round(delta_phi, 2)), sin(Round(delta_phi, 2)))
             + Mul(Mul(cos(phi1), cos(phi2)),
                   Mul(sin(Round(delta_lambda, 2)),
                       sin(Round(delta_lambda, 2))))
        c == 2 * atan2(sqrt(a), sqrt(Unit - a))
        distance == R * c
    IN  distance

\* latitudes and longitudes in whole degrees: places of both hemispheres,
\* ten degrees apart or more, which the four decimal places resolve
Latitudes == {-30, 0, 10, 45}
Longitudes == {-20, 0, 30}

\* haversine_distance is called, in donor.py and in hospital.py, and
\* returns; the function reads no state
HaversineDistance ==
    /\ matched.op = NULL
    /\ \E lat1, lat2 \in Latitudes, lon1, lon2 \in Longitudes :
        Matched("haversine_distance",
                [lat1 |-> lat1, lon1 |-> lon1, lat2 |-> lat2, lon2 |-> lon2,
                 donor |-> donor_haversine_distance(lat1, lon1, lat2, lon2),
                 hospital |->
                     hospital_haversine_distance(lat1, lon1, lat2, lon2)])

\* the characters a requested blood type is spelled with
TypeCharacters == {"A", "B", "O", "a", "b", "o", "+", "-", " "}

\* the requested types: every string of at most MaxTypeLen characters
TypeSpellings == UNION {[1..n -> TypeCharacters] : n \in 0..MaxTypeLen}

\* get_compatible_donor_types(requested_type) is called and returns; the
\* function reads no state, so one call per behaviour shows all it does
GetCompatibleDonorTypes ==
    /\ matched.op = NULL
    /\ \E requested_type \in TypeSpellings :
        Matched("get_compatible_donor_types",
                [requested_type |-> requested_type,
                 returned |-> get_compatible_donor_types(requested_type)])

UtilNext ==
    \/ GetCompatibleDonorTypes
    \/ HaversineDistance

UtilSpec == Init /\ [][UtilNext]_vars

\* ================================================================ claims

\* the responses of one (donor id, request id) pair
ResponsesOf(resps, donor_id, request_id) ==
    {i \in DOMAIN resps : /\ resps[i].donor_id = donor_id
                          /\ resps[i].request_id = request_id}

\* the donation records that reference one response id
RecordsOf(recs, response_id) ==
    {k \in DOMAIN recs : recs[k].original_response_id = response_id}

\* C1: in every reachable state, under any interleaving of concurrent
\* respond_to_request calls, the store holds at most one Response per
\* (donor id, request id) pair.
C1_OneResponsePerPair ==
    \A i, j \in DOMAIN responses :
        (/\ responses[i].donor_id = responses[j].donor_id
         /\ responses[i].request_id = responses[j].request_id) => i = j

\* C2: in every reachable state, under any interleaving of concurrent
\* confirm_donation calls for one response id with the correct token, at
\* most one DonationRecord has that response id as original_response_id.
C2_OneRecordPerResponse ==
    \A k, l \in DOMAIN records :
        records[k].original_response_id = records[l].original_response_id
            => k = l

\* C3: in every reachable state, a respond_to_request call for a (donor,
\* request) pair that already has a Response, the request still active,
\* fails with Conflict whatever commitment status it supplies and whatever
\* the status of the Response it meets, and leaves the one Response of the
\* pair as it was.
C3_SecondResponseConflict ==
    \A d \in Donors, r \in DOMAIN requests, cs \in CommitmentStatuses,
       generated \in generate_4_digit_token :
        (/\ requests[r].status = "active"
         /\ ResponsesOf(responses, d, r) # {})
        => LET out == respond_to_request(requests, responses, records,
                                         d, r, cs, generated)
           IN  /\ out.code = HTTP_409_CONFLICT
               /\ out.responses = responses
               /\ Cardinality(ResponsesOf(out.responses, d, r)) = 1

\* a second response was turned away with Conflict, the pair has its one
\* Response and the request is active
C3_Witness ==
    /\ reply.op = "respond_to_request"
    /\ reply.code = HTTP_409_CONFLICT
    /\ \E d \in Donors, r \in DOMAIN requests :
          /\ requests[r].status = "active"
          /\ Cardinality(ResponsesOf(responses, d, r)) = 1

\* C4: in every reachable state where a DonationRecord exists for a
\* response id (confirm_donation has succeeded), a confirm_donation call for
\* that id with the correct token fails with Conflict, exactly one
\* DonationRecord references the id, and the call changes no Response, no
\* Request and no DonationRecord.
C4_SecondConfirmConflict ==
    \A h \in Hospitals, i \in DOMAIN responses :
        RecordsOf(records, i) # {}
        => LET out == confirm_donation(requests, responses, records, h, i,
                                       responses[i].confirmation_token)
           IN  /\ out.code = HTTP_409_CONFLICT
               /\ Cardinality(RecordsOf(out.records, i)) = 1
               /\ out.records = records
               /\ out.responses = responses
               /\ out.requests = requests

\* a confirmation was turned away with Conflict and the confirmed response
\* has its one record
C4_Witness ==
    /\ reply.op = "confirm_donation"
    /\ reply.code = HTTP_409_CONFLICT
    /\ \E i \in DOMAIN responses :
          /\ responses[i].status = "completed"
          /\ Cardinality(RecordsOf(records, i)) = 1

\* C5: in every reachable state, confirm_donation with a token that differs
\* from the stored token of the Response, or on a Response that stores no
\* token, fails with Unauthorized and changes no Response, no Request and
\* no DonationRecord.
C5_WrongTokenUnauthorized ==
    \A h \in Hospitals, i \in DOMAIN responses, tok \in SubmittedTokens :
        (\/ responses[i].confirmation_token = NULL
         \/ responses[i].confirmation_token # tok)
        => LET out == confirm_donation(requests, responses, records,
                                       h, i, tok)
           IN  /\ out.code = HTTP_401_UNAUTHORIZED
               /\ out.responses = responses
               /\ out.requests = requests
               /\ out.records = records

\* a confirmation was turned away with Unauthorized while the store holds a
\* Response with a token and the request of that Response is still active
C5_Witness ==
    /\ reply.op = "confirm_donation"
    /\ reply.code = HTTP_401_UNAUTHORIZED
    /\ records = <<>>
    /\ \E i \in DOMAIN responses :
          /\ responses[i].confirmation_token # NULL
          /\ responses[i].status = "in progress"
          /\ responses[i].request_id \in DOMAIN requests
          /\ requests[responses[i].request_id].status = "active"

\* C6: from every reachable state where a request is active and a donor has
\* no Response for it, the three calls of the workflow succeed one after
\* the other: the donor's committed response is created and returns a
\* token, marking that Response in progress succeeds, and confirming it
\* with the returned token succeeds and leaves the Response completed, the
\* Request fulfilled and exactly one DonationRecord, of status Completed,
\* whose original_response_id is the Response.
C6_CommitProgressConfirm ==
    \A d \in Donors, r \in DOMAIN requests, h \in Hospitals,
       generated \in generate_4_digit_token :
        (/\ requests[r].status = "active"
         /\ ResponsesOf(responses, d, r) = {})
        => LET o1 == respond_to_request(requests, responses, records,
                                        d, r, "committed", generated)
               i  == o1.body.response_id
               o2 == set_response_in_progress(o1.requests, o1.responses,
                                              o1.records, i)
               o3 == confirm_donation(o2.requests, o2.responses,
                         o2.records, h, i,
                         o1.body.confirmation_token_if_committed)
           IN  /\ o1.code = HTTP_201_CREATED
               /\ o1.body.confirmation_token_if_committed
                      \in generate_4_digit_token
               /\ o1.responses[i].status = "committed"
               /\ o2.code = HTTP_200_OK
               /\ o2.responses[i].status = "in progress"
               /\ o3.code = HTTP_201_CREATED
               /\ o3.responses[i].status = "completed"
               /\ o3.responses[i].donor_id = d
               /\ o3.responses[i].request_id = r
               /\ o3.requests[r].status = "fulfilled"
               /\ Cardinality(RecordsOf(o3.records, i)) = 1
               /\ \A k \in RecordsOf(o3.records, i) :
                     o3.records[k].status = "Completed"

\* the three calls have been made: the last reply is the successful
\* confirmation, the Response is completed, its Request fulfilled, and one
\* Completed record references it
C6_Witness ==
    /\ reply.op = "confirm_donation"
    /\ reply.code = HTTP_201_CREATED
    /\ \E i \in DOMAIN responses :
          /\ responses[i].status = "completed"
          /\ responses[i].request_id \in DOMAIN requests
          /\ requests[responses[i].request_id].status = "fulfilled"
          /\ Cardinality(RecordsOf(records, i)) = 1
          /\ \A k \in RecordsOf(records, i) : records[k].status = "Completed"

\* C7: in every reachable state, respond_to_request on a missing Request
\* fails with NotFound, on a Request whose status is not active it fails
\* with InvalidState, and in both cases no Response is inserted: a Response
\* is only inserted for a Request that exists and is active.
C7_RespondNeedsActiveRequest ==
    \A d \in Donors, r \in 1..MaxRequests, cs \in CommitmentStatuses,
       generated \in generate_4_digit_token :
        LET out == respond_to_request(requests, responses, records,
                                      d, r, cs, generated)
        IN  /\ r \notin DOMAIN requests
               => /\ out.code = HTTP_404_NOT_FOUND
                  /\ out.responses = responses
            /\ (r \in DOMAIN requests /\ requests[r].status # "active")
               => /\ out.code = HTTP_400_BAD_REQUEST
                  /\ out.responses = responses
            /\ out.responses # responses
               => /\ r \in DOMAIN requests
                  /\ requests[r].status = "active"

\* a response to a fulfilled request was turned away with InvalidState
C7_Witness ==
    /\ reply.op = "respond_to_request"
    /\ reply.code = HTTP_400_BAD_REQUEST
    /\ reply.message = "Cannot respond to request with status: fulfilled."
    /\ \E r \in DOMAIN requests : requests[r].status = "fulfilled"

\* C8: in every reachable state, set_response_in_progress on a Response
\* whose status is neither committed nor in progress fails with
\* InvalidState and changes no Response; in particular a completed Response
\* is still completed after the call.
C8_InProgressOnlyFromCommitted ==
    \A i \in DOMAIN responses :
        LET out == set_response_in_progress(requests, responses, records, i)
        IN  /\ responses[i].status \notin {"committed", "in progress"}
               => /\ out.code = HTTP_400_BAD_REQUEST
                  /\ out.responses = responses
            /\ responses[i].status = "completed"
               => out.responses[i].status = "completed"

\* the transition was refused on a completed Response
C8_Witness ==
    /\ reply.op = "set_response_in_progress"
    /\ reply.code = HTTP_400_BAD_REQUEST
    /\ reply.message = "Cannot move from status 'completed' to 'in progress'."
    /\ \E i \in DOMAIN responses : responses[i].status = "completed"

\* C9: in every reachable state, set_response_in_progress on a committed
\* Response succeeds and changes that Response's status to in progress and
\* nothing else; called again on the outcome it succeeds and changes
\* nothing, so two calls leave the store one call leaves; and on a Response
\* found in progress it succeeds and changes nothing.
C9_InProgressIdempotent ==
    \A i \in DOMAIN responses :
        LET once  == set_response_in_progress(requests, responses,
                                              records, i)
            twice == set_response_in_progress(once.requests, once.responses,
                                              once.records, i)
        IN  /\ responses[i].status = "committed"
               => /\ once.code = HTTP_200_OK
                  /\ once.responses =
                         [responses EXCEPT ![i].status = "in progress"]
                  /\ once.requests = requests
                  /\ once.records = records
                  /\ twice.code = HTTP_200_OK
                  /\ twice.responses = once.responses
                  /\ twice.requests = once.requests
                  /\ twice.records = once.records
            /\ responses[i].status = "in progress"
               => /\ once.code = HTTP_200_OK
                  /\ once.responses = responses
                  /\ once.requests = requests
                  /\ once.records = records

\* the call was repeated on a Response already in progress and succeeded
C9_Witness ==
    /\ reply.op = "set_response_in_progress"
    /\ reply.code = HTTP_200_OK
    /\ reply.message = "Donation status is already 'in progress'."
    /\ \E i \in DOMAIN responses : responses[i].status = "in progress"

\* C10 as stated: in every reachable state, a Response has a non-null
\* confirmation token only when its status is committed.
C10_TokenOnlyWhenCommitted ==
    \A i \in DOMAIN responses :
        responses[i].confirmation_token # NULL
            => responses[i].status = "committed"

\* C10, amended: in every reachable state, a Response has a non-null
\* confirmation token only when its status is committed, in progress or
\* completed (the token issued on commitment stays with the Response
\* through the workflow), and a Response created with any status other than
\* committed has no token.
C10_TokenOnlyOnCommitPath ==
    [][\A i \in DOMAIN responses' :
          /\ responses'[i].confirmation_token # NULL
                => responses'[i].status
                       \in {"committed", "in progress", "completed"}
          /\ (i \notin DOMAIN responses /\ responses'[i].status # "committed")
                => responses'[i].confirmation_token = NULL]_vars

\* a Response that has been confirmed still carries its token, beside a
\* Response created with another status and no token
C10_Witness ==
    \E i, j \in DOMAIN responses :
        /\ responses[i].status = "completed"
        /\ responses[i].confirmation_token # NULL
        /\ responses[j].status = "declined"
        /\ responses[j].confirmation_token = NULL

\* C11: once a Request has status fulfilled, no step of update_request,
\* confirm_donation, respond_to_request or set_response_in_progress gives
\* it another status: a fulfilled Request that is still in the store is
\* still fulfilled after every step.
C11_FulfilledStaysFulfilled ==
    [][\A r \in DOMAIN requests :
          (requests[r].status = "fulfilled" /\ r \in DOMAIN requests')
          => requests'[r].status = "fulfilled"]_vars

\* C12: in every reachable state, a Request with status fulfilled has a
\* DonationRecord that references one of its Responses: only the success
\* path of confirm_donation sets the status to fulfilled.
C12_FulfilledOnlyByConfirmation ==
    \A r \in DOMAIN requests :
        requests[r].status = "fulfilled"
        => \E k \in DOMAIN records :
              /\ records[k].original_response_id \in DOMAIN responses
              /\ responses[records[k].original_response_id].request_id = r

\* the place of a status in the order committed < in progress < completed
\* (0 for a status outside the confirmation state machine)
StatusRank(s) ==
    CASE s = "committed"   -> 1
      [] s = "in progress" -> 2
      [] s = "completed"   -> 3
      [] OTHER             -> 0

\* C13: under any interleaving of set_response_in_progress and
\* confirm_donation with the other handlers, no step deletes a Response and
\* no step moves the status of a Response to an earlier state of
\* committed < in progress < completed: a status of the three is followed
\* by itself or by a later one.
C13_ResponseStatusMonotonic ==
    [][/\ Len(responses') >= Len(responses)
       /\ \A i \in DOMAIN responses :
             /\ responses'[i].donor_id = responses[i].donor_id
             /\ responses'[i].request_id = responses[i].request_id
             /\ StatusRank(responses[i].status) > 0
                => StatusRank(responses'[i].status)
                       >= StatusRank(responses[i].status)]_vars

\* set_response_in_progress has run its update on a Response that a
\* confirmation had already completed, and the Response is still completed
C13_Witness ==
    \E t \in Tasks :
        /\ task[t].pc = "set_in_progress_find"
        /\ task[t].response_id \in DOMAIN responses
        /\ responses[task[t].response_id].status = "completed"
        /\ RecordsOf(records, task[t].response_id) # {}

\* C14: in every reachable state, confirm_donation called with the stored
\* token on a Response whose parent Request is in the store and not active
\* (fulfilled by another donor's confirmed donation, or otherwise inactive)
\* fails with InvalidState (400) and has no side effect: no DonationRecord
\* is created and no Response and no Request changes.
C14_ConfirmNeedsActiveRequest ==
    \A h \in Hospitals, i \in DOMAIN responses :
        (/\ responses[i].request_id \in DOMAIN requests
         /\ requests[responses[i].request_id].status # "active"
         /\ responses[i].confirmation_token # NULL)
        => LET out == confirm_donation(requests, responses, records, h, i,
                                       responses[i].confirmation_token)
           IN  /\ out.code = HTTP_400_BAD_REQUEST
               /\ out.records = records
               /\ out.responses = responses
               /\ out.requests = requests

\* the positions of confirm_donation at which the next store call is one
\* of its three writes
ConfirmWrites ==
    {"confirm_insert_record", "confirm_update_response",
     "confirm_update_request"}

\* C15: when the store fails at one of the three writes of
\* confirm_donation, the call leaves no partial result: once it has ended
\* (and no other confirmation of the Response is under way), a
\* DonationRecord for the Response exists only if the Response is
\* completed and its parent Request, if it is in the store, is fulfilled.
C15_ConfirmFailsAtomically ==
    [][\A t \in Tasks :
          (/\ task[t].pc \in ConfirmWrites
           /\ store_failure(t)
           /\ \A u \in Tasks \ {t} :
                 ~(/\ task[u].pc \in ConfirmWrites
                   /\ task[u].response_id = task[t].response_id))
          => LET i == task[t].response_id
                 r == task[t].request_id
             IN  RecordsOf(records', i) # {}
                 => /\ responses'[i].status = "completed"
                    /\ r \in DOMAIN requests'
                       => requests'[r].status = "fulfilled"]_vars

\* C16: every step that removes a Request from the store (delete_request
\* has succeeded) leaves no Response that references the id of that
\* Request.
C16_DeleteCascadesToResponses ==
    [][\A r \in DOMAIN requests :
          r \notin DOMAIN requests'
          => \A i \in DOMAIN responses' : responses'[i].request_id # r]_vars

\* a list of donor summaries is in ascending order of distance
SortedByDistance(donors) ==
    \A i, j \in DOMAIN donors :
        i < j => donors[i].distance_km <= donors[j].distance_km

\* C17: for every users collection, in whatever order it returns the
\* donors, and every search, the list find_nearby_donors returns and the
\* donors list of search_available_donors are in ascending order of
\* distance from the hospital coordinates.
C17_MatchesSortedByDistance ==
    \A requested \in RequestedTypes, hospital_lat \in HospitalLatitudes,
       radius_km \in Radii :
        /\ SortedByDistance(
               find_nearby_donors(users, hospital_lat, 0, requested,
                                  radius_km))
        /\ SortedByDistance(
               search_available_donors(users, "hospital",
                   Location(hospital_lat, 0), requested,
                   radius_km).donors)

\* the donor has numeric coordinates that lie within the radius
InRadius(donor, hospital_lat, hospital_lon, radius_km) ==
    /\ float_raises(donor.lat) = NULL
    /\ float_raises(donor.lon) = NULL
    /\ haversine_distance(hospital_lat, hospital_lon, float(donor.lat),
                          float(donor.lon)) <= radius_km * 1000

\* the users a search for the requested type around the hospital is to
\* return: donors, available, of a compatible type, within the radius
Qualifying(usrs, requested, hospital_lat, hospital_lon, radius_km) ==
    {k \in DOMAIN usrs :
        /\ usrs[k].role = "donor"
        /\ usrs[k].availability_status = "available"
        /\ usrs[k].blood_type
               \in Elements(get_compatible_donor_types(requested))
        /\ InRadius(usrs[k], hospital_lat, hospital_lon, radius_km)}

\* C18: for every users collection and every search, a user is in the
\* result of find_nearby_donors, once, if and only if the user has role
\* donor, is available, has a blood type among the compatible donor types
\* of the requested type, has numeric coordinates and lies within the
\* radius; when no user qualifies the result is the empty list. The search
\* of search_available_donors around a place the geocoder finds succeeds
\* with the same donors.
C18_MatchesExactlyTheQualifying ==
    \A requested \in RequestedTypes, hospital_lat \in HospitalLatitudes,
       radius_km \in Radii :
        LET found == find_nearby_donors(users, hospital_lat, 0, requested,
                                        radius_km)
            searched == search_available_donors(users, "hospital",
                            Location(hospital_lat, 0), requested, radius_km)
            qualifying == Qualifying(users, requested, hospital_lat, 0,
                                     radius_km)
        IN  /\ \A k \in DOMAIN users :
                  k \in qualifying
                  <=> \E i \in DOMAIN found :
                         found[i].id = str(users[k]._id)
            /\ Len(found) = Cardinality(qualifying)
            /\ qualifying = {} => found = <<>>
            /\ searched.code = HTTP_200_OK
            /\ searched.donors = found

\* a search within 50 km has returned one donor, a compatible O- donor, and
\* has left out the other user, a donor who is unavailable, too far away,
\* of type B+ or without numeric coordinates
C18_Witness ==
    /\ matched.op = "find_nearby_donors"
    /\ Len(matched.result) = 1
    /\ matched.result[1].blood_type = O_NEG
    /\ \E k \in DOMAIN users :
          /\ str(users[k]._id) # matched.result[1].id
          /\ users[k].role = "donor"
          /\ \/ users[k].availability_status = "unavailable"
             \/ users[k].blood_type = B_POS
             \/ users[k].lat = DecimalString(61)
             \/ users[k].lat = "abc"

\* C19: in every reachable state, for every request and every search,
\* find_next_suitable_donor does not return a donor who has a Response, of
\* any status, for the request.
C19_NextDonorHasNotResponded ==
    \A r \in DOMAIN requests, blood_type \in DonorBloodTypes,
       hospital_lat \in HospitalLatitudes, radius_km \in Radii :
        \A best \in Elements(find_next_suitable_donor(users, responses, r,
                        blood_type, hospital_lat, 0, radius_km)) :
            ResponsesOf(responses, best.id, r) = {}

\* C20: for every users collection, every request and every search,
\* find_next_suitable_donor returns a donor of least distance among the
\* available donors who have no Response for the request, lie within the
\* radius and have a blood type among the compatible donor types of the
\* requested type, and it returns None only when there is no such donor.
C20_NextDonorIsClosestCompatible ==
    \A r \in DOMAIN requests, blood_type \in RequestedTypes,
       hospital_lat \in HospitalLatitudes, radius_km \in Radii :
        LET best == find_next_suitable_donor(users, responses, r,
                        blood_type, hospital_lat, 0, radius_km)
            candidates ==
                {k \in Qualifying(users, blood_type, hospital_lat, 0,
                                  radius_km) :
                    ResponsesOf(responses, str(users[k]._id), r) = {}}
            Distance(k) ==
                haversine_distance(hospital_lat, 0, float(users[k].lat),
                                   float(users[k].lon))
        IN  /\ best = <<>> <=> candidates = {}
            /\ best # <<>>
               => \E k \in candidates :
                     /\ best[1].id = str(users[k]._id)
                     /\ \A j \in candidates : Distance(k) <= Distance(j)

\* the eight blood types
BloodTypes == {O_NEG, O_POS, A_NEG, A_POS, B_NEG, B_POS, AB_NEG, AB_POS}

\* a spelling in capitals and without its spaces
Spelled(T) == SelectSeq([k \in DOMAIN T |-> UpperChar(T[k])],
                        LAMBDA c : c # " ")

\* C21: whenever get_compatible_donor_types has been called with a string
\* T, it has returned a list; when T spells one of the eight blood types,
\* in any letter case and with spaces anywhere, the list contains O-, and
\* otherwise the list is the single value T in capitals without spaces.
C21_CompatibleTypesIncludeONeg ==
    matched.op = "get_compatible_donor_types"
    => LET T == matched.result.requested_type
           returned == matched.result.returned
       IN  IF Spelled(T) \in BloodTypes
           THEN O_NEG \in Elements(returned)
           ELSE returned = <<Spelled(T)>>

\* the call was made with a lower-case spelling of AB+ with a space inside
\* it and returned a list with O-
C21_Witness ==
    /\ matched.op = "get_compatible_donor_types"
    /\ matched.result.requested_type = <<"a", " ", "b", "+">>
    /\ O_NEG \in Elements(matched.result.returned)

\* the call was made with a string that spells no blood type and returned
\* that string in capitals without its spaces
C21_WitnessUnrecognized ==
    /\ matched.op = "get_compatible_donor_types"
    /\ matched.result.requested_type = <<" ", "o", " ", "o">>
    /\ matched.result.returned = <<(<<"O", "O">>)>>

\* the ABO antigens of a blood type
Antigens(T) == {T[k] : k \in DOMAIN T} \cap {"A", "B"}

\* the blood type is Rh-positive
RhPositive(T) == T[Len(T)] = "+"

\* the standard ABO/Rh rule: recipient r can receive from donor d
CanReceive(r, d) ==
    /\ Antigens(d) \subseteq Antigens(r)
    /\ RhPositive(d) => RhPositive(r)

\* C22: whenever get_compatible_donor_types has been called with one of
\* the eight blood types r, the returned list holds blood types only and a
\* blood type d is in it if and only if d's ABO antigens are a subset of
\* r's and d is Rh-negative or r is Rh-positive; for AB+ the list holds
\* all eight types and for O- it holds O- alone.
C22_TableIsABORhRule ==
    (/\ matched.op = "get_compatible_donor_types"
     /\ matched.result.requested_type \in BloodTypes)
    => LET r == matched.result.requested_type
           returned == Elements(matched.result.returned)
       IN  /\ returned \subseteq BloodTypes
           /\ \A d \in BloodTypes : d \in returned <=> CanReceive(r, d)
           /\ r = AB_POS => returned = BloodTypes
           /\ r = O_NEG => returned = {O_NEG}

\* the call was made for A+ and returned the four types O-, O+, A-, A+
C22_Witness ==
    /\ matched.op = "get_compatible_donor_types"
    /\ matched.result.requested_type = A_POS
    /\ Elements(matched.result.returned) = {O_NEG, O_POS, A_NEG, A_POS}

\* the users whose coordinates are both numbers
WithCoordinates(usrs) ==
    SelectSeq(usrs, LAMBDA donor : coordinate_error(donor) = NULL)

\* C23: for every users collection, some of whose donors have missing or
\* non-numeric coordinates, and every search, find_nearby_donors,
\* search_available_donors and find_next_suitable_donor raise no exception
\* and return what they return for the collection without those donors.
C23_MalformedCoordinatesSkipped ==
    \A requested \in DonorBloodTypes \cup {A_POS},
       hospital_lat \in HospitalLatitudes :
        LET sound == WithCoordinates(users)
        IN  /\ find_nearby_donors_raises(users, requested) = NULL
            /\ find_nearby_donors(users, hospital_lat, 0, requested, 50)
               = find_nearby_donors(sound, hospital_lat, 0, requested, 50)
            /\ search_available_donors_raises(users, requested) = NULL
            /\ search_available_donors(users, "hospital",
                   Location(hospital_lat, 0), requested, 50)
               = search_available_donors(sound, "hospital",
                   Location(hospital_lat, 0), requested, 50)
            /\ \A r \in DOMAIN requests :
                  /\ find_next_suitable_donor_raises(users, responses, r,
                                                     requested) = NULL
                  /\ find_next_suitable_donor(users, responses, r,
                         requested, hospital_lat, 0, 50)
                     = find_next_suitable_donor(sound, responses, r,
                         requested, hospital_lat, 0, 50)

\* the first user of the collection is an available O- donor without
\* numeric coordinates, and the search that read the collection has
\* returned the second
C23_Witness ==
    /\ users[1].role = "donor"
    /\ users[1].availability_status = "available"
    /\ users[1].blood_type = O_NEG
    /\ coordinate_error(users[1]) # NULL
    /\ matched.op \in {"find_nearby_donors", "find_next_suitable_donor"}
    /\ Len(matched.result) = 1
    /\ matched.result[1].id = str(users[2]._id)

\* the tokens a Response can store: the generated ones, and None
StoredTokens == generate_4_digit_token \cup {NULL}

\* C24: in every reachable state, for every Response, every other stored
\* token the Response could have (None included) and every submitted token
\* that equals neither stored token, confirm_donation answers the same on
\* the two stores, with Unauthorized, the same message and the same body,
\* and leaves each of the two stores as it was.
C24_UnauthorizedIndependentOfToken ==
    \A h \in Hospitals, i \in DOMAIN responses, other \in StoredTokens,
       tok \in SubmittedTokens :
        (/\ tok # responses[i].confirmation_token
         /\ tok # other)
        => LET twin == [responses EXCEPT ![i].confirmation_token = other]
               out1 == confirm_donation(requests, responses, records,
                                        h, i, tok)
               out2 == confirm_donation(requests, twin, records, h, i, tok)
           IN  /\ out1.code = HTTP_401_UNAUTHORIZED
               /\ out2.code = out1.code
               /\ out2.message = out1.message
               /\ out2.body = out1.body
               /\ out1.responses = responses
               /\ out2.responses = twin
               /\ out1.requests = requests /\ out2.requests = requests
               /\ out1.records = records /\ out2.records = records

\* a confirmation was turned away with Unauthorized while the store holds
\* a Response with a token and a Response without one
C24_Witness ==
    /\ reply.op = "confirm_donation"
    /\ reply.code = HTTP_401_UNAUTHORIZED
    /\ \E i, j \in DOMAIN responses :
          /\ responses[i].confirmation_token \in generate_4_digit_token
          /\ responses[j].confirmation_token = NULL

\* C25: a step in which respond_to_request inserts a Response leaves the
\* users collection (the donor's availability status with it), the
\* requests, the records and the earlier Responses as they were; after it
\* the donor can still commit to every other active request the donor has
\* not responded to, and every search returns what it returned before the
\* step, the donor included when the donor qualifies.
C25_RespondChangesResponsesOnly ==
    [][responses' # responses
       => LET d == responses'[Len(responses')].donor_id
          IN  /\ users' = users
              /\ requests' = requests
              /\ records' = records
              /\ SubSeq(responses', 1, Len(responses)) = responses
              /\ \A r \in DOMAIN requests' :
                    (/\ requests'[r].status = "active"
                     /\ ResponsesOf(responses', d, r) = {})
                    => respond_to_request(requests', responses', records',
                           d, r, "committed", ToString(TokenLow)).code
                       = HTTP_201_CREATED
              /\ \A requested \in DonorBloodTypes,
                    hospital_lat \in HospitalLatitudes :
                    LET found == find_nearby_donors(users', hospital_lat, 0,
                                                    requested, 50)
                    IN  /\ found = find_nearby_donors(users, hospital_lat,
                                                      0, requested, 50)
                        /\ \A k \in Qualifying(users, requested,
                                                hospital_lat, 0, 50) :
                              \E i \in DOMAIN found :
                                 found[i].id = str(users[k]._id)]_vars

\* a donor has committed to both requests, is still available and is in
\* the result of the search made after the commitments
C25_Witness ==
    \E d \in Donors :
        /\ \A r \in ActiveRequests :
              \E i \in ResponsesOf(responses, d, r) :
                 responses[i].status = "committed"
        /\ \E k \in DOMAIN users :
              /\ str(users[k]._id) = d
              /\ users[k].availability_status = "available"
        /\ matched.op = "find_nearby_donors"
        /\ \E i \in DOMAIN matched.result : matched.result[i].id = d

\* C26: whenever haversine_distance has been called with two points, the
\* copy in donor.py and the copy in hospital.py have returned the same
\* value, and each returns that value for the two points exchanged.
C26_HaversineSymmetric ==
    matched.op = "haversine_distance"
    => LET call == matched.result
       IN  /\ call.hospital = call.donor
           /\ donor_haversine_distance(call.lat2, call.lon2,
                                       call.lat1, call.lon1) = call.donor
           /\ hospital_haversine_distance(call.lat2, call.lon2,
                                          call.lat1, call.lon1)
              = call.hospital

\* the function was called with two places that differ in latitude and in
\* longitude and returned a distance that is not zero
C26_Witness ==
    /\ matched.op = "haversine_distance"
    /\ matched.result.lat1 < matched.result.lat2
    /\ matched.result.lon1 > matched.result.lon2
    /\ matched.result.donor > 0

\* C27: in every reachable state, every Response of status completed is
\* the original_response_id of a DonationRecord.
C27_CompletedHasRecord ==
    \A i \in DOMAIN responses :
        responses[i].status = "completed" => RecordsOf(records, i) # {}

\* C28: in every reachable state, the hospital_id of every DonationRecord
\* is the hospital_id of the Request that the Response of the record
\* belongs to: confirm_donation takes effect only for the hospital that
\* owns the Request.
C28_RecordBelongsToRequestOwner ==
    \A k \in DOMAIN records :
        LET r == responses[records[k].original_response_id].request_id
        IN  r \in DOMAIN requests
            => records[k].hospital_id = requests[r].hospital_id

\* C29: under every interleaving of the handlers, a step that inserts a
\* Response inserts it for a Request that exists and is active in the
\* state the insert is made in.
C29_InsertOnlyForActiveRequest ==
    [][Len(responses') > Len(responses)
       => LET r == responses'[Len(responses')].request_id
          IN  /\ r \in DOMAIN requests
              /\ requests[r].status = "active"]_vars

\* C30: a step that turns the status of a stored Response into completed
\* finds the Response in progress: confirm_donation does not complete a
\* Response that is committed and was never marked in progress.
C30_CompletedOnlyFromInProgress ==
    [][\A i \in DOMAIN responses :
          (/\ i \in DOMAIN responses'
           /\ responses[i].status # "completed"
           /\ responses'[i].status = "completed")
          => responses[i].status = "in progress"]_vars

====
